---------------------------- MODULE Spec2Model ----------------------------
(***************************************************************************)
(* The AddStudent wizard of frontend/src/components/AddStudent.tsx: a      *)
(* three-step form (basic info, academic info, review) whose final step    *)
(* calls the backend's create-student operation, then its predict-risk     *)
(* operation, and hands the assembled record to onStudentAdded.            *)
(*                                                                         *)
(* Text the code inspects character by character (the numeric fields read  *)
(* by parseFloat/parseInt, the risk level passed to toLowerCase, the       *)
(* names and e-mail addresses) is a sequence of one-character strings.     *)
(* Messages and enumerated values the code only compares are TLA+ strings. *)
(***************************************************************************)
EXTENDS Integers, Sequences, FiniteSets, TLC

(***************************************************************************)
(* Bounds of the model.                                                    *)
(***************************************************************************)
\* handleSubmit may be started at most this many times in one behaviour.
MaxAttempts == 2

(***************************************************************************)
(* Characters and JavaScript's string functions.                           *)
(***************************************************************************)
DigitChars == <<"0", "1", "2", "3", "4", "5", "6", "7", "8", "9">>

UpperChars ==
  <<"A", "B", "C", "D", "E", "F", "G", "H", "I", "J", "K", "L", "M",
    "N", "O", "P", "Q", "R", "S", "T", "U", "V", "W", "X", "Y", "Z">>

LowerChars ==
  <<"a", "b", "c", "d", "e", "f", "g", "h", "i", "j", "k", "l", "m",
    "n", "o", "p", "q", "r", "s", "t", "u", "v", "w", "x", "y", "z">>

IsDigit(c) == \E i \in 1..10 : DigitChars[i] = c

DigitVal(c) == (CHOOSE i \in 1..10 : DigitChars[i] = c) - 1

IsSpace(c) == c = " "

\* String.prototype.toLowerCase on one character.
LowerChar(c) ==
  IF \E i \in 1..26 : UpperChars[i] = c
    THEN LowerChars[CHOOSE i \in 1..26 : UpperChars[i] = c]
    ELSE c

\* String.prototype.toLowerCase.
ToLowerCase(s) == [i \in 1..Len(s) |-> LowerChar(s[i])]

\* Index of the first character at or after i that is not white space.
RECURSIVE SkipSpace(_, _)
SkipSpace(s, i) ==
  IF i <= Len(s) /\ IsSpace(s[i]) THEN SkipSpace(s, i + 1) ELSE i

\* String.prototype.trim (as used by MentorRegister on its own fields).
RECURSIVE TrimEnd(_)
TrimEnd(s) ==
  IF Len(s) > 0 /\ IsSpace(s[Len(s)]) THEN TrimEnd(SubSeq(s, 1, Len(s) - 1))
  ELSE s

Trim(s) == TrimEnd(SubSeq(s, SkipSpace(s, 1), Len(s)))

\* Index just past the longest run of decimal digits that starts at i.
RECURSIVE DigitRun(_, _)
DigitRun(s, i) ==
  IF i <= Len(s) /\ IsDigit(s[i]) THEN DigitRun(s, i + 1) ELSE i

\* The number written by the digits s[i..j-1], read after the value acc.
RECURSIVE DigitsValue(_, _, _, _)
DigitsValue(s, i, j, acc) ==
  IF i >= j THEN acc ELSE DigitsValue(s, i + 1, j, 10 * acc + DigitVal(s[i]))

RECURSIVE Pow10(_)
Pow10(k) == IF k = 0 THEN 1 ELSE 10 * Pow10(k - 1)

(***************************************************************************)
(* JavaScript numbers as the wizard meets them: the decimal fraction n/d   *)
(* with d a power of ten, or NaN (d = 0).  Every comparison with NaN is    *)
(* false, and -0 is 0 in comparisons.                                      *)
(***************************************************************************)
NaN == [n |-> 0, d |-> 0]

IsNaN(x) == x.d = 0

\* x < k and x > k for a number x and an integer literal k.
NumLess(x, k) == ~IsNaN(x) /\ x.n < k * x.d

NumGreater(x, k) == ~IsNaN(x) /\ x.n > k * x.d

\* Position of the first character after the optional sign.
SignEnd(s, i) == IF i <= Len(s) /\ s[i] \in {"-", "+"} THEN i + 1 ELSE i

SignOf(s, i) == IF i <= Len(s) /\ s[i] = "-" THEN -1 ELSE 1

\* parseInt(s): leading white space, optional sign, then decimal digits up
\* to the first character that is not a digit; NaN when there is no digit.
parseInt(s) ==
  LET b == SkipSpace(s, 1)
      i == SignEnd(s, b)
      j == DigitRun(s, i)
  IN  IF j = i THEN NaN
      ELSE [n |-> SignOf(s, b) * DigitsValue(s, i, j, 0), d |-> 1]

\* parseFloat(s): leading white space, optional sign, digits, and an optional
\* "." followed by digits; NaN when neither part has a digit.
parseFloat(s) ==
  LET b == SkipSpace(s, 1)
      i == SignEnd(s, b)
      j == DigitRun(s, i)
      dot == j <= Len(s) /\ s[j] = "."
      k == IF dot THEN DigitRun(s, j + 1) ELSE j
      fl == IF dot THEN k - (j + 1) ELSE 0
  IN  IF j = i /\ fl = 0 THEN NaN
      ELSE [n |-> SignOf(s, b) * DigitsValue(s, j + 1, k,
                                  DigitsValue(s, i, j, 0)),
            d |-> Pow10(fl)]

\* String(n) for a natural number n.
RECURSIVE NatToString(_)
NatToString(n) ==
  IF n < 10 THEN <<DigitChars[n + 1]>>
  ELSE Append(NatToString(n \div 10), DigitChars[(n % 10) + 1])

\* A JavaScript string is falsy exactly when it is empty.
Falsy(s) == Len(s) = 0


(***************************************************************************)
(* What the user can type or select.  The number inputs (type="number")    *)
(* hand the component either "" or the text of a decimal number.           *)
(***************************************************************************)
NameInputs == {<<>>, <<" ", "A", "l">>}

EmailInputs == {<<>>, <<"A", "@", "x">>}

ParentNameInputs == {<<>>, <<"P", "a", " ">>}

ParentEmailInputs == {<<>>, <<"P", "@", "x">>}

RoleInputs == {"student", "parent"}

CgpaInputs == {<<>>, <<"7", ".", "5">>, <<"1", "0", ".", "1">>, <<"-", "1">>}

AttendanceInputs == {<<>>, <<"8", "5">>, <<"1", "0", "0", ".", "5">>,
                     <<"1", "0", "1">>}

BacklogInputs == {<<>>, <<"2">>, <<"-", "0", ".", "5">>, <<"-", "1">>}

FeeStatusInputs == {"paid", "pending", "overdue"}

(***************************************************************************)
(* What the backend and the embedding context can answer.                  *)
(***************************************************************************)
BackendIds == {7, 12}

\* risk_level strings of a predict-risk response.
RiskLevels == {<<"H", "i", "g", "h">>, <<"h", "i", "g", "h">>,
               <<"H", "I", "G", "H">>, <<"M", "e", "d", "i", "u", "m">>,
               <<"L", "O", "W">>, <<"l", "o", "w">>,
               <<"C", "r", "i", "t", "i", "c", "a", "l">>}

\* A predict-risk call rejects, resolves with a risk_level, or resolves with
\* an object that has no risk_level.
PredictRejected == [ok |-> FALSE, has |-> FALSE, risk_level |-> <<>>]

PredictResponses ==
  {PredictRejected, [ok |-> TRUE, has |-> FALSE, risk_level |-> <<>>]}
    \cup {[ok |-> TRUE, has |-> TRUE, risk_level |-> l] : l \in RiskLevels}

NoPredict == [ok |-> FALSE, has |-> TRUE, risk_level |-> <<>>]

CallbackOutcomes == {"returned", "threw"}

LOW == <<"l", "o", "w">>

MEDIUM == <<"m", "e", "d", "i", "u", "m">>

HIGH == <<"h", "i", "g", "h">>

\* The value of an optional property that is not set.
Undefined == <<"undefined">>

(***************************************************************************)
(* State.                                                                  *)
(***************************************************************************)
VARIABLES
  step,            \* useState(1)
  studentData,     \* the draft record
  error,           \* useState('')
  isSubmitting,    \* useState(false)
  pc,              \* where handleSubmit's body is suspended
  inFlight,        \* backend calls issued and not yet settled
  payload,         \* argument of the latest apiAddStudent call
  created,         \* value the latest apiAddStudent call resolved with
  predictArg,      \* argument of the latest apiPredictRisk call
  r,               \* how the latest apiPredictRisk call settled
  lastRecord,      \* argument of the latest onStudentAdded call
  attempt,         \* the current or latest run of handleSubmit
  totals,          \* counts over all runs of handleSubmit
  escaped          \* an exception has left handleSubmit

vars == <<step, studentData, error, isSubmitting, pc, inFlight, payload,
          created, predictArg, r, lastRecord, attempt, totals, escaped>>

wizardVars == <<step, studentData, error, isSubmitting>>

submitVars == <<pc, inFlight, payload, created, predictArg, r, lastRecord,
                attempt, totals, escaped>>

InitialData ==
  [name |-> <<>>, email |-> <<>>, role |-> "student", parentName |-> <<>>,
   parentEmail |-> <<>>, cgpa |-> <<>>, attendance |-> <<>>,
   feeStatus |-> "", backlogs |-> <<>>]

NoPayload ==
  [full_name |-> <<>>, email |-> <<>>, account_type |-> "",
   parent_name |-> Undefined, parent_email |-> Undefined,
   current_cgpa |-> NaN, attendance_percentage |-> NaN, fee_status |-> "",
   backlogs |-> NaN]

NoCreated ==
  [id |-> 0, full_name |-> <<>>, email |-> <<>>, current_cgpa |-> NaN,
   attendance_percentage |-> NaN, fee_status |-> "", backlogs |-> NaN]

NoPredictArg ==
  [current_cgpa |-> NaN, attendance_percentage |-> NaN, fee_status |-> "",
   backlogs |-> NaN]

NoRecord ==
  [id |-> <<>>, name |-> <<>>, email |-> <<>>, cgpa |-> NaN,
   attendance |-> NaN, feeStatus |-> "", backlogs |-> NaN,
   dropoutRisk |-> <<>>, riskScore |-> -1]

\* A run of handleSubmit: how many times it issued each call and invoked
\* the callback, and how each of them ended.
NoAttempt ==
  [creates |-> 0, predicts |-> 0, added |-> 0, create |-> "none",
   predict |-> "none", callback |-> "none"]

NoTotals == [attempts |-> 0, creates |-> 0, createOks |-> 0, predicts |-> 0,
             added |-> 0]

Init ==
  /\ step = 1
  /\ studentData = InitialData
  /\ error = ""
  /\ isSubmitting = FALSE
  /\ pc = "idle"
  /\ inFlight = {}
  /\ payload = NoPayload
  /\ created = NoCreated
  /\ predictArg = NoPredictArg
  /\ r = NoPredict
  /\ lastRecord = NoRecord
  /\ attempt = NoAttempt
  /\ totals = NoTotals
  /\ escaped = FALSE

(***************************************************************************)
(* The onChange handlers.  A field can be edited only while the step that  *)
(* renders its input is shown.                                             *)
(***************************************************************************)
SetField(f, v) ==
  /\ studentData' = [studentData EXCEPT ![f] = v]
  /\ UNCHANGED <<step, error, isSubmitting>>
  /\ UNCHANGED submitVars

ChangeName == step = 1 /\ \E v \in NameInputs : SetField("name", v)

ChangeEmail == step = 1 /\ \E v \in EmailInputs : SetField("email", v)

ChangeRole == step = 1 /\ \E v \in RoleInputs : SetField("role", v)

ChangeParentName ==
  /\ step = 1
  /\ studentData.role = "parent"
  /\ \E v \in ParentNameInputs : SetField("parentName", v)

ChangeParentEmail ==
  /\ step = 1
  /\ studentData.role = "parent"
  /\ \E v \in ParentEmailInputs : SetField("parentEmail", v)

ChangeCgpa == step = 2 /\ \E v \in CgpaInputs : SetField("cgpa", v)

ChangeAttendance ==
  step = 2 /\ \E v \in AttendanceInputs : SetField("attendance", v)

ChangeFeeStatus ==
  step = 2 /\ \E v \in FeeStatusInputs : SetField("feeStatus", v)

ChangeBacklogs == step = 2 /\ \E v \in BacklogInputs : SetField("backlogs", v)

(***************************************************************************)
(* handleNext.                                                             *)
(***************************************************************************)
\* Step1Error without the check of the parent fields.
Step1ErrorNoParentCheck(d) ==
  IF Falsy(d.name) \/ Falsy(d.email)
    THEN "Please provide student name and email"
  ELSE ""

\* The message of the step-1 validation, '' when the draft passes.
Step1Error(d) ==
  IF Falsy(d.name) \/ Falsy(d.email)
    THEN "Please provide student name and email"
  ELSE IF d.role = "parent" /\ (Falsy(d.parentName) \/ Falsy(d.parentEmail))
    THEN "Please provide parent information"
  ELSE ""

\* The message of the step-2 validation, '' when the draft passes.
Step2Error(d) ==
  LET cgpa == parseFloat(d.cgpa)
      attendance == parseInt(d.attendance)
      backlogs == parseInt(d.backlogs)
  IN  IF Falsy(d.cgpa) \/ Falsy(d.attendance) \/ d.feeStatus = ""
         \/ Falsy(d.backlogs)
        THEN "Please fill in all academic fields"
      ELSE IF NumLess(cgpa, 0) \/ NumGreater(cgpa, 10)
        THEN "CGPA must be between 0 and 10"
      ELSE IF NumLess(attendance, 0) \/ NumGreater(attendance, 100)
        THEN "Attendance must be between 0 and 100%"
      ELSE IF NumLess(backlogs, 0)
        THEN "Backlogs cannot be negative"
      ELSE ""

\* The message handleNext leaves for a draft d at step s.
NextError(s, d) ==
  IF s = 1 THEN Step1Error(d) ELSE IF s = 2 THEN Step2Error(d) ELSE ""

\* NextStep with the step advanced whatever the validation says.
NextStepUnvalidated(s, d) == IF s \in {1, 2} THEN s + 1 ELSE s

\* NextStep with a valid step-1 draft taken straight to the review step.
NextStepSkipping(s, d) ==
  IF s \in {1, 2} /\ NextError(s, d) = "" THEN 3 ELSE s

\* The step handleNext leaves.
NextStep(s, d) == IF s \in {1, 2} /\ NextError(s, d) = "" THEN s + 1 ELSE s

\* The "Next" buttons of steps 1 and 2.
handleNext ==
  /\ step \in {1, 2}
  /\ error' = NextError(step, studentData)
  /\ step' = NextStep(step, studentData)
  /\ UNCHANGED <<studentData, isSubmitting>>
  /\ UNCHANGED submitVars

(***************************************************************************)
(* The "Previous" buttons.                                                 *)
(***************************************************************************)
\* PreviousDisabled with the review step's button disabled throughout.
PreviousDisabledAtReview(s, submitting) == s = 3

\* The disabled attribute of the "Previous" button of step s.
PreviousDisabled(s, submitting) == s = 3 /\ submitting

\* What is recorded of the latest run of handleSubmit (the arguments and
\* results of its calls) is kept while the review step stays on screen.
Previous ==
  /\ step \in {2, 3}
  /\ ~PreviousDisabled(step, isSubmitting)
  /\ step' = step - 1
  /\ UNCHANGED <<studentData, error, isSubmitting>>
  /\ payload' = NoPayload
  /\ created' = NoCreated
  /\ predictArg' = NoPredictArg
  /\ r' = NoPredict
  /\ lastRecord' = NoRecord
  /\ attempt' = NoAttempt
  /\ UNCHANGED <<pc, inFlight, totals, escaped>>

(***************************************************************************)
(* handleSubmit.  Its body is suspended at the two awaits, so it is three  *)
(* steps: up to the create-student call, from that call's settling up to   *)
(* the predict-risk call, and from that call's settling to the end.        *)
(***************************************************************************)
SubmitErrorMessage == "An error occurred while creating the student profile"

\* FeeStatusOf with the draft's value sent as it is.
FeeStatusOfUnmapped(f) == IF f = "" THEN "paid" ELSE f

\* The fee_status property of the create-student payload.
FeeStatusOf(f) ==
  IF f = "pending" THEN "payment_pending"
  ELSE IF f = "overdue" THEN "payment_overdue"
  ELSE "paid"

\* The object handed to apiAddStudent (mentor_id, which comes from the
\* authentication context, is left out).
Payload(d) ==
  [full_name |-> d.name,
   email |-> d.email,
   account_type |-> IF d.role = "parent" THEN "student_and_parent"
                    ELSE "student",
   parent_name |-> IF d.role = "parent" THEN d.parentName ELSE Undefined,
   parent_email |-> IF d.role = "parent" THEN d.parentEmail ELSE Undefined,
   current_cgpa |-> parseFloat(d.cgpa),
   attendance_percentage |-> parseFloat(d.attendance),
   fee_status |-> FeeStatusOf(d.feeStatus),
   backlogs |-> parseInt(d.backlogs)]

\* The records a successful create-student call can resolve with: the
\* stored fields of the payload under an identifier of the backend, the
\* name and the e-mail address as sent or as the backend canonicalises them.
CreatedRecords(p) ==
  {[id |-> i,
    full_name |-> IF canonical THEN Trim(p.full_name) ELSE p.full_name,
    email |-> IF canonical THEN ToLowerCase(Trim(p.email)) ELSE p.email,
    current_cgpa |-> p.current_cgpa,
    attendance_percentage |-> p.attendance_percentage,
    fee_status |-> p.fee_status, backlogs |-> p.backlogs] :
     i \in BackendIds, canonical \in BOOLEAN}

\* The object handed to apiPredictRisk.
PredictArg(c) ==
  [current_cgpa |-> c.current_cgpa,
   attendance_percentage |-> c.attendance_percentage,
   fee_status |-> c.fee_status, backlogs |-> c.backlogs]

\* The tier -> score table.
ScoreOf(risk) ==
  IF risk = HIGH THEN 80 ELSE IF risk = MEDIUM THEN 50 ELSE 20

\* Where the statements that use a settled predict-risk call throw: the
\* await itself when the call rejected, r.risk_level.toLowerCase() when the
\* response has no risk_level, nowhere ("") otherwise.
PredictThrowsAt(resp) ==
  IF ~resp.ok THEN "predict" ELSE IF ~resp.has THEN "risk_level" ELSE ""

\* Prediction with the table's lowest score as the default score.
PredictionDefaultsToTable(resp) ==
  IF PredictThrowsAt(resp) = ""
    THEN [risk |-> ToLowerCase(resp.risk_level),
          score |-> ScoreOf(ToLowerCase(resp.risk_level))]
    ELSE [risk |-> LOW, score |-> 20]

\* Prediction with the score looked up before the level is lower-cased.
PredictionCaseSensitive(resp) ==
  IF PredictThrowsAt(resp) = ""
    THEN [risk |-> ToLowerCase(resp.risk_level),
          score |-> ScoreOf(resp.risk_level)]
    ELSE [risk |-> LOW, score |-> 0]

\* risk and score after the inner try statement.
Prediction(resp) ==
  IF PredictThrowsAt(resp) = ""
    THEN [risk |-> ToLowerCase(resp.risk_level),
          score |-> ScoreOf(ToLowerCase(resp.risk_level))]
    ELSE [risk |-> LOW, score |-> 0]

\* Handler with r.risk_level.toLowerCase() outside the inner try statement.
HandlerRiskLevelOutside(place) ==
  IF place = "predict" THEN "inner"
  ELSE IF place \in {"create", "risk_level", "assemble", "callback"}
    THEN "outer"
  ELSE "none"

\* Handler with the onStudentAdded call after the outer try statement.
HandlerCallbackOutside(place) ==
  IF place \in {"predict", "risk_level"} THEN "inner"
  ELSE IF place \in {"create", "assemble"} THEN "outer"
  ELSE "none"

\* The try statement whose catch clause receives an exception thrown at a
\* place of handleSubmit's body: the inner one around the prediction, the
\* outer one around the whole body, or none.
Handler(place) ==
  IF place \in {"predict", "risk_level"} THEN "inner"
  ELSE IF place \in {"create", "assemble", "callback"} THEN "outer"
  ELSE "none"

\* StudentRecord with the name and the e-mail address read from the draft.
StudentRecordFromDraft(c, d, p) ==
  [id |-> NatToString(c.id), name |-> d.name, email |-> d.email,
   cgpa |-> c.current_cgpa, attendance |-> c.attendance_percentage,
   feeStatus |-> d.feeStatus, backlogs |-> c.backlogs,
   dropoutRisk |-> p.risk, riskScore |-> p.score]

\* newStudentRecord.
StudentRecord(c, d, p) ==
  [id |-> NatToString(c.id), name |-> c.full_name, email |-> c.email,
   cgpa |-> c.current_cgpa, attendance |-> c.attendance_percentage,
   feeStatus |-> d.feeStatus, backlogs |-> c.backlogs,
   dropoutRisk |-> p.risk, riskScore |-> p.score]

\* Finish with a catch clause that does not clear the submitting flag.
FinishKeepsSubmitting(h) ==
  /\ pc' = "idle"
  /\ error' = IF h = "outer" THEN SubmitErrorMessage ELSE error
  /\ isSubmitting' = isSubmitting
  /\ escaped' = IF h = "none" THEN TRUE ELSE escaped

\* Finish with the submitting flag cleared in a finally clause.
FinishAlwaysClears(h) ==
  /\ pc' = "idle"
  /\ error' = IF h = "outer" THEN SubmitErrorMessage ELSE error
  /\ isSubmitting' = FALSE
  /\ escaped' = IF h = "none" THEN TRUE ELSE escaped

\* How a run of handleSubmit ends: normally ("ok"), in the outer catch
\* clause ("outer"), or with the exception leaving the function ("none").
Finish(h) ==
  /\ pc' = "idle"
  /\ error' = IF h = "outer" THEN SubmitErrorMessage ELSE error
  /\ isSubmitting' = IF h = "outer" THEN FALSE ELSE isSubmitting
  /\ escaped' = IF h = "none" THEN TRUE ELSE escaped

\* handleSubmit issuing both backend calls at once.
handleSubmitConcurrent ==
  /\ step = 3
  /\ ~isSubmitting
  /\ totals.attempts < MaxAttempts
  /\ error' = ""
  /\ isSubmitting' = TRUE
  /\ payload' = Payload(studentData)
  /\ inFlight' = inFlight \cup {"create", "predict"}
  /\ pc' = "awaitCreate"
  /\ attempt' = [NoAttempt EXCEPT !.creates = 1, !.create = "pending"]
  /\ totals' = [totals EXCEPT !.attempts = @ + 1, !.creates = @ + 1]
  /\ UNCHANGED <<step, studentData, created, predictArg, r, lastRecord,
                 escaped>>

\* The "Create Student Profile" button: handleSubmit up to its first await.
handleSubmit ==
  /\ step = 3
  /\ ~isSubmitting
  /\ totals.attempts < MaxAttempts
  /\ error' = ""
  /\ isSubmitting' = TRUE
  /\ payload' = Payload(studentData)
  /\ inFlight' = inFlight \cup {"create"}
  /\ pc' = "awaitCreate"
  /\ attempt' = [NoAttempt EXCEPT !.creates = 1, !.create = "pending"]
  /\ totals' = [totals EXCEPT !.attempts = @ + 1, !.creates = @ + 1]
  /\ UNCHANGED <<step, studentData, created, predictArg, r, lastRecord,
                 escaped>>

\* The create-student call rejects: handleSubmit resumes in a catch clause.
CreateRejects ==
  /\ pc = "awaitCreate"
  /\ inFlight' = inFlight \ {"create"}
  /\ attempt' = [attempt EXCEPT !.create = "failed"]
  /\ Finish(Handler("create"))
  /\ UNCHANGED <<step, studentData, payload, created, predictArg, r,
                 lastRecord, totals>>

\* The create-student call resolves: handleSubmit resumes and runs up to its
\* second await.
CreateResolves ==
  /\ pc = "awaitCreate"
  /\ \E c \in CreatedRecords(payload) :
       /\ created' = c
       /\ predictArg' = PredictArg(c)
  /\ inFlight' = (inFlight \ {"create"}) \cup {"predict"}
  /\ pc' = "awaitPredict"
  /\ attempt' = [attempt EXCEPT !.create = "ok", !.predicts = @ + 1,
                                !.predict = "pending"]
  /\ totals' = [totals EXCEPT !.createOks = @ + 1, !.predicts = @ + 1]
  /\ UNCHANGED <<step, studentData, error, isSubmitting, payload, r,
                 lastRecord, escaped>>

\* The predict-risk call settles with resp: handleSubmit resumes and runs to
\* its end, invoking onStudentAdded, which returns or throws (cb).
PredictSettles ==
  /\ pc = "awaitPredict"
  /\ \E resp \in PredictResponses, cb \in CallbackOutcomes :
       LET place == PredictThrowsAt(resp)
           h == IF place = "" THEN "inner" ELSE Handler(place)
           rec == StudentRecord(created, studentData, Prediction(resp))
       IN  /\ r' = resp
           /\ IF h = "inner"
                THEN /\ lastRecord' = rec
                     /\ attempt' = [attempt EXCEPT
                          !.predict = IF place = "" THEN "ok" ELSE "failed",
                          !.added = @ + 1, !.callback = cb]
                     /\ totals' = [totals EXCEPT !.added = @ + 1]
                     /\ Finish(IF cb = "threw" THEN Handler("callback")
                               ELSE "ok")
                ELSE /\ attempt' = [attempt EXCEPT !.predict = "failed"]
                     /\ Finish(h)
                     /\ UNCHANGED <<lastRecord, totals>>
  /\ inFlight' = inFlight \ {"predict"}
  /\ UNCHANGED <<step, studentData, payload, created, predictArg>>

(***************************************************************************)
(* The wizard.                                                             *)
(***************************************************************************)
Next ==
  \/ ChangeName
  \/ ChangeEmail
  \/ ChangeRole
  \/ ChangeParentName
  \/ ChangeParentEmail
  \/ ChangeCgpa
  \/ ChangeAttendance
  \/ ChangeFeeStatus
  \/ ChangeBacklogs
  \/ handleNext
  \/ Previous
  \/ handleSubmit
  \/ CreateRejects
  \/ CreateResolves
  \/ PredictSettles

Spec == Init /\ [][Next]_vars

TypeOK ==
  /\ step \in 1..3
  /\ isSubmitting \in BOOLEAN
  /\ pc \in {"idle", "awaitCreate", "awaitPredict"}
  /\ inFlight \subseteq {"create", "predict"}
  /\ escaped \in BOOLEAN

(***************************************************************************)
(* Properties.                                                             *)
(***************************************************************************)
\* A required field of step 1 is empty.
MissingBasicInfo(d) ==
  \/ d.name = <<>>
  \/ d.email = <<>>
  \/ d.role = "parent" /\ (d.parentName = <<>> \/ d.parentEmail = <<>>)

\* C1: a "Next" at step 1 on a draft whose name or email is empty, or whose
\* role is parent and whose parent name or parent email is empty, leaves
\* step = 1 and leaves the error message non-empty.
C1_NextRejectsMissingBasicInfo ==
  [][(handleNext /\ step = 1 /\ MissingBasicInfo(studentData))
       => (step' = 1 /\ error' # "")]_vars

\* A "Next" at step 1 was rejected for the parent fields alone.
C1_Witness ==
  /\ step = 1
  /\ studentData.role = "parent"
  /\ studentData.name # <<>>
  /\ studentData.email # <<>>
  /\ error = "Please provide parent information"

\* The number a field's text denotes (the whole text, fraction included).
ValueOf(text) == parseFloat(text)

\* A value of step 2 is out of its range: CGPA outside [0,10], attendance
\* outside [0,100], or a negative backlog count.
AcademicOutOfRange(d) ==
  \/ NumLess(ValueOf(d.cgpa), 0) \/ NumGreater(ValueOf(d.cgpa), 10)
  \/ NumLess(ValueOf(d.attendance), 0)
  \/ NumGreater(ValueOf(d.attendance), 100)
  \/ NumLess(ValueOf(d.backlogs), 0)

\* C2: a "Next" at step 2 on a draft whose CGPA is outside [0,10], whose
\* attendance is outside [0,100] or whose backlog count is negative
\* (fractional entries included, whatever the other fields hold) does not
\* advance: step stays 2.
C2_NextRejectsOutOfRange ==
  [][(handleNext /\ step = 2 /\ AcademicOutOfRange(studentData))
       => step' = 2]_vars

\* C3: when the create-student call of a run of handleSubmit fails, the
\* wizard is at step 3 with a non-empty error message and the submitting
\* flag cleared, and that run called neither predict-risk nor onStudentAdded.
C3_CreateFailure ==
  attempt.create = "failed"
    => /\ step = 3
       /\ error # ""
       /\ ~isSubmitting
       /\ pc = "idle"
       /\ attempt.predicts = 0
       /\ "predict" \notin inFlight
       /\ attempt.added = 0

\* A create-student call has failed.
C3_Witness == attempt.create = "failed" /\ inFlight = {}

\* C4: when create-student succeeds and predict-risk fails, handleSubmit
\* still invokes onStudentAdded, with risk tier "low" and score 0, and the
\* prediction failure alone surfaces no error message.
C4_PredictFailureDefaults ==
  (attempt.create = "ok" /\ attempt.predict = "failed")
    => /\ attempt.added = 1
       /\ lastRecord.dropoutRisk = LOW
       /\ lastRecord.riskScore = 0
       /\ (attempt.callback = "returned" => error = "")

\* A rejected predict-risk call was followed by a callback that returned.
C4_Witness ==
  /\ attempt.predict = "failed"
  /\ r = PredictRejected
  /\ attempt.callback = "returned"
  /\ lastRecord # NoRecord

\* The tier and the score the table gives for a returned risk level, in the
\* casings the backend is seen to use.
TierTable ==
  {[level |-> <<"H", "i", "g", "h">>, tier |-> HIGH, score |-> 80],
   [level |-> <<"H", "I", "G", "H">>, tier |-> HIGH, score |-> 80],
   [level |-> <<"h", "i", "g", "h">>, tier |-> HIGH, score |-> 80],
   [level |-> <<"M", "e", "d", "i", "u", "m">>, tier |-> MEDIUM,
    score |-> 50],
   [level |-> <<"L", "O", "W">>, tier |-> LOW, score |-> 20],
   [level |-> <<"l", "o", "w">>, tier |-> LOW, score |-> 20]}

\* C5: when create-student and predict-risk both succeed, the record's risk
\* tier is the lower-cased risk_level and its score follows the table
\* high -> 80, medium -> 50, low -> 20, in every letter-casing of the level.
C5_TierAndScore ==
  attempt.predict = "ok"
    => /\ attempt.added = 1
       /\ lastRecord.dropoutRisk = ToLowerCase(r.risk_level)
       /\ \A t \in TierTable :
            r.risk_level = t.level
              => /\ lastRecord.dropoutRisk = t.tier
                 /\ lastRecord.riskScore = t.score

\* predict-risk answered "High" and the record went out with high / 80.
C5_Witness ==
  /\ attempt.predict = "ok"
  /\ r.risk_level = <<"H", "i", "g", "h">>
  /\ lastRecord.riskScore = 80

\* C6 as stated: in every state with step >= 2, a submission in flight
\* included, a "Previous" is enabled and moves the step from n to n-1
\* without validating and without setting an error.
C6_PreviousAlwaysPermitted ==
  step >= 2
    => ENABLED (Previous /\ step' = step - 1 /\ error' = error
                  /\ studentData' = studentData)

\* C6, amended: "Previous" never validates and never touches the error
\* message or the draft, and it is enabled at step 2 always and at step 3
\* whenever the submitting flag is clear (the review step's button is
\* disabled while isSubmitting is set).
C6_PreviousPermittedUnlessSubmitting ==
  /\ [](step >= 2 => (ENABLED Previous <=> ~(step = 3 /\ isSubmitting)))
  /\ [][Previous => (step' = step - 1 /\ error' = error
                       /\ studentData' = studentData
                       /\ isSubmitting' = isSubmitting)]_vars

\* "Previous" has left the review step after a failed submission, the
\* message of that failure untouched.
C6_Witness ==
  /\ step = 2
  /\ error = SubmitErrorMessage
  /\ ~isSubmitting
  /\ totals.attempts >= 1

\* C7: onStudentAdded is invoked exactly once per successful submission:
\* whenever no run of handleSubmit is suspended, the number of invocations
\* equals the number of runs whose create-student call succeeded, and no run
\* invokes it more than once.
C7_OneCallbackPerCreated ==
  /\ attempt.added <= 1
  /\ totals.added <= totals.createOks
  /\ pc = "idle" => totals.added = totals.createOks
  /\ (pc = "idle" /\ attempt.create = "ok") => attempt.added = 1
  /\ attempt.create \in {"pending", "failed"} => attempt.added = 0

\* Two runs of handleSubmit have each created a student and called back.
C7_Witness ==
  /\ pc = "idle"
  /\ totals.createOks = 2
  /\ totals.added = 2
  /\ attempt.predict = "failed"

\* C8: in every run of handleSubmit create-student is issued exactly once,
\* predict-risk at most once and only after that run's create-student has
\* resolved, the two calls are never in flight together, and every run (a
\* resubmission after a failure too) issues create-student afresh.
C8_CallsSequenced ==
  /\ Cardinality(inFlight) <= 1
  /\ attempt.create # "none" => attempt.creates = 1
  /\ attempt.predicts <= 1
  /\ (attempt.predicts = 1 \/ "predict" \in inFlight) => attempt.create = "ok"
  /\ "create" \in inFlight <=> attempt.create = "pending"
  /\ "predict" \in inFlight <=> attempt.predict = "pending"
  /\ totals.creates = totals.attempts
  /\ totals.predicts = totals.createOks

\* A resubmission after a failed create-student call has its own
\* create-student call in flight.
C8_Witness ==
  /\ totals.attempts = 2
  /\ totals.createOks = 0
  /\ inFlight = {"create"}
  /\ error = ""

\* C9: no exception leaves handleSubmit, whatever create-student,
\* predict-risk (a response without risk_level included) and onStudentAdded
\* do, and a failure of create-student or of onStudentAdded ends with a
\* non-empty error message on the review step.
C9_NoFailureEscapes ==
  /\ ~escaped
  /\ (attempt.create = "failed" \/ attempt.callback = "threw")
       => (pc = "idle" /\ step = 3 /\ error # "" /\ ~isSubmitting)

\* onStudentAdded threw after a response that had no risk_level.
C9_Witness ==
  /\ attempt.callback = "threw"
  /\ r.ok
  /\ ~r.has
  /\ pc = "idle"

\* C10: the payload passed to create-student is the normalized draft: name,
\* email and parent fields trimmed and the email lower-cased.
C10_PayloadNormalized ==
  pc = "awaitCreate"
    => /\ payload.full_name = Trim(studentData.name)
       /\ payload.email = ToLowerCase(Trim(studentData.email))
       /\ studentData.role = "parent"
            => /\ payload.parent_name = Trim(studentData.parentName)
               /\ payload.parent_email = Trim(studentData.parentEmail)

\* C11: a rejected "Next" (one that leaves an error message) at step 1 or 2
\* changes nothing but the message: the step, every field of the draft and
\* the submitting flag are unchanged, and no backend call is issued.
C11_RejectedNextOnlySetsMessage ==
  [][(handleNext /\ error' # "")
       => /\ step' = step
          /\ studentData' = studentData
          /\ isSubmitting' = isSubmitting
          /\ inFlight' = inFlight
          /\ inFlight = {}
          /\ totals' = totals
          /\ pc' = pc]_vars

\* A "Next" at step 2 was rejected for the attendance, with the whole form
\* filled in.
C11_Witness ==
  /\ step = 2
  /\ error = "Attendance must be between 0 and 100%"
  /\ studentData.attendance = <<"1", "0", "1">>
  /\ studentData.feeStatus # ""
  /\ totals.creates = 0

\* C12: every record passed to onStudentAdded has a risk tier in
\* {low, medium, high} and a score in {0, 20, 50, 80}, and a tier / score
\* other than low / 0 only when that run's predict-risk call succeeded,
\* whatever risk_level string the backend returns.
C12_TierAndScoreInRange ==
  attempt.added >= 1
    => /\ lastRecord.dropoutRisk \in {LOW, MEDIUM, HIGH}
       /\ lastRecord.riskScore \in {0, 20, 50, 80}
       /\ (lastRecord.dropoutRisk # LOW \/ lastRecord.riskScore # 0)
            => attempt.predict = "ok"

\* The fields of the record handed to onStudentAdded that are copied from
\* the created record.
ForwardedFromCreated ==
  /\ lastRecord.id = NatToString(created.id)
  /\ lastRecord.name = created.full_name
  /\ lastRecord.email = created.email
  /\ lastRecord.cgpa = created.current_cgpa
  /\ lastRecord.attendance = created.attendance_percentage
  /\ lastRecord.backlogs = created.backlogs

\* C13 as stated: in the record passed to onStudentAdded the identifier,
\* name, email, CGPA, attendance, fee status and backlog count all equal the
\* fields of the record create-student returned for that run.
C13_CreatedForwardedUnchanged ==
  attempt.added >= 1
    => (ForwardedFromCreated /\ lastRecord.feeStatus = created.fee_status)

\* C13, amended: the identifier (as a string), name, email, CGPA, attendance
\* and backlog count equal the created record's fields, and the fee status
\* is the draft's own value (paid, pending or overdue), not the created
\* record's fee_status.
C13_CreatedForwardedExceptFeeStatus ==
  attempt.added >= 1
    => /\ ForwardedFromCreated
       /\ lastRecord.feeStatus = studentData.feeStatus
       /\ lastRecord.feeStatus \in {"paid", "pending", "overdue"}

\* A record went out whose name is the backend's, not the draft's, and whose
\* fee status is the draft's, not the backend's.
C13_Witness ==
  /\ attempt.added = 1
  /\ created.full_name # studentData.name
  /\ lastRecord.name = <<"A", "l">>
  /\ lastRecord.feeStatus = "pending"
  /\ created.fee_status = "payment_pending"

C15_LinearSteps ==
  /\ [](step \in {1, 2, 3})
  /\ [](NextStep(3, studentData) = 3 /\ NextError(3, studentData) = "")
  /\ [][\/ step' = step
        \/ /\ step' = step + 1
           /\ handleNext
           /\ error' = ""
           /\ step = 1 => ~MissingBasicInfo(studentData)
           /\ step = 2 => Step2Error(studentData) = ""
        \/ /\ step' = step - 1
           /\ Previous]_vars

\* The review step has been entered, left through "Previous" and entered
\* again.
C15_Witness ==
  /\ step = 3
  /\ error = ""
  /\ ~isSubmitting
  /\ totals.attempts = 1
  /\ attempt = NoAttempt

\* The backend's word for a fee status of the draft.
BackendFeeStatus(f) ==
  IF f = "paid" THEN "paid"
  ELSE IF f = "pending" THEN "payment_pending"
  ELSE IF f = "overdue" THEN "payment_overdue"
  ELSE "unset"

\* C16: the fee status sent to create-student is paid -> paid, pending ->
\* payment_pending, overdue -> payment_overdue, and the unset value '' never
\* reaches a create-student call because the review step is never shown
\* with an unset fee status; account_type is 'student_and_parent', with the
\* parent's name and email present, exactly when role = parent, and the
\* parent fields are omitted when role = student.
C16_FeeStatusAndAccountType ==
  /\ step = 3 => studentData.feeStatus \in {"paid", "pending", "overdue"}
  /\ pc = "awaitCreate"
       => /\ payload.fee_status = BackendFeeStatus(studentData.feeStatus)
          /\ payload.account_type \in {"student", "student_and_parent"}
          /\ payload.account_type = "student_and_parent"
               <=> studentData.role = "parent"
          /\ studentData.role = "parent"
               => /\ payload.parent_name = studentData.parentName
                  /\ payload.parent_email = studentData.parentEmail
                  /\ payload.parent_name \notin {<<>>, Undefined}
                  /\ payload.parent_email \notin {<<>>, Undefined}
          /\ studentData.role = "student"
               => /\ payload.parent_name = Undefined
                  /\ payload.parent_email = Undefined

\* A create-student call is in flight for a student-only account whose draft
\* still holds parent fields, with an overdue fee status.
C16_Witness ==
  /\ pc = "awaitCreate"
  /\ studentData.role = "student"
  /\ studentData.parentName # <<>>
  /\ studentData.feeStatus = "overdue"
  /\ payload.fee_status = "payment_overdue"

\* The draft passes the rules of steps 1 and 2 as handleNext applies them.
DraftValidated(d) == Step1Error(d) = "" /\ Step2Error(d) = ""

\* The numbers handleSubmit sends for a draft are within their ranges.
SentValuesInRange(d) ==
  LET cgpa == parseFloat(d.cgpa)
      attendance == parseFloat(d.attendance)
      backlogs == parseInt(d.backlogs)
  IN  /\ ~IsNaN(cgpa) /\ ~NumLess(cgpa, 0) /\ ~NumGreater(cgpa, 10)
      /\ ~IsNaN(attendance) /\ ~NumLess(attendance, 0)
      /\ ~NumGreater(attendance, 100)
      /\ ~IsNaN(backlogs) /\ ~NumLess(backlogs, 0)

\* C17: whenever step = 3, and so at every create-student call, the draft
\* satisfies the rules of steps 1 and 2 and the numbers sent (CGPA and
\* attendance parsed as floats, backlogs as an integer) lie in CGPA in
\* [0,10], attendance in [0,100], backlogs >= 0.
C17_ReviewedDraftIsValid ==
  step = 3
    => /\ DraftValidated(studentData)
       /\ SentValuesInRange(studentData)
       /\ pc = "awaitCreate"
            => /\ payload.current_cgpa = parseFloat(studentData.cgpa)
               /\ payload.attendance_percentage
                    = parseFloat(studentData.attendance)
               /\ payload.backlogs = parseInt(studentData.backlogs)

=============================================================================
